---- MODULE Spec2Model ----
(***************************************************************************)
(* Model of WrapperFunction/__init__.py: the FastAPI request handlers of   *)
(* the lost-item service over two Cosmos DB containers and one blob        *)
(* container.  Python dicts are records over a fixed key set in which a    *)
(* missing key carries the marker Absent; Python None is the marker None.  *)
(***************************************************************************)
EXTENDS Integers, FiniteSets, Sequences, TLC

VARIABLES lost_items_container, lost_items_by_subcategory_container, blobs,
          now, nextUuid, resp, created, updated, uploads, pc, w_item, w_existing

vars == <<lost_items_container, lost_items_by_subcategory_container, blobs,
          now, nextUuid, resp, created, updated, uploads, pc, w_item, w_existing>>

----------------------------------------------------------------------------
(* Bounds *)

MaxTime == 2
MaxBlobData == 2
MaxUploads == 3

----------------------------------------------------------------------------
(* Values *)

None == "<None>"
Absent == "<absent>"
Unset == "<unset>"
NoneItem == [null |-> TRUE]
AbsentItem == [absent |-> TRUE]
UnsetItem == [unset |-> TRUE]
ValidationError == [error |-> "ValidationError"]

Places == {"Shibuya", "Minato"}
StatusValues == {"found"}

(* a Status enum member, as opposed to its JSON value *)
Status(v) == "Status." \o v

(* a datetime object and its ISO rendering *)
datetime(t) == "datetime(" \o ToString(t) \o ")"
isoformat(t) == ToString(t) \o "Z"

Times == 0..(MaxTime + 1)

(* str(uuid.uuid4()) *)
str(u) == ToString(u)

Keys == {"id", "createUserPlace", "item", "status", "DateFound", "DateUpdated"}

IsAbsent(k, v) == IF k = "item" THEN v = AbsentItem ELSE v = Absent

----------------------------------------------------------------------------
(* models.py: request and response shapes *)

(* Item values a request can carry: categoryName is required, color is      *)
(* optional and may be left unset.                                          *)
ItemRequests ==
    {[categoryName |-> "wallet", color |-> "red"],
     [categoryName |-> "bag", color |-> Unset]}

(* LostItemRequest instances; a field that was not supplied is Unset        *)
LostItemRequest ==
    [createUserPlace : Places,
     item : ItemRequests \cup {UnsetItem},
     status : {Status(v) : v \in StatusValues} \cup {Unset}]

(* item.dict(): every field, unset ones with their default None *)
dict(item) ==
    [createUserPlace |-> item.createUserPlace,
     item |-> IF item.item = UnsetItem THEN NoneItem
              ELSE [categoryName |-> item.item.categoryName,
                    color |-> IF item.item.color = Unset THEN None
                              ELSE item.item.color],
     status |-> IF item.status = Unset THEN None ELSE item.status]

(* item.dict(exclude_unset=True): unset fields are left out, at every level *)
dict_exclude_unset(item) ==
    [createUserPlace |-> item.createUserPlace,
     item |-> IF item.item = UnsetItem THEN AbsentItem
              ELSE [categoryName |-> item.item.categoryName,
                    color |-> IF item.item.color = Unset THEN Absent
                              ELSE item.item.color],
     status |-> IF item.status = Unset THEN Absent ELSE item.status]

ParseDatetime(s) ==
    IF \E t \in Times : s = datetime(t) \/ s = isoformat(t)
    THEN datetime(CHOOSE t \in Times : s = datetime(t) \/ s = isoformat(t))
    ELSE None

ParseStatus(s) ==
    IF \E v \in StatusValues : s = v \/ s = Status(v)
    THEN Status(CHOOSE v \in StatusValues : s = v \/ s = Status(v))
    ELSE None

ParseItem(i) ==
    IF i = AbsentItem \/ i = NoneItem THEN NoneItem
    ELSE [categoryName |-> i.categoryName,
          color |-> IF i.color = Absent THEN None ELSE i.color]

(* LostItem built from the dict d: id and DateFound are required, the rest default to None *)
LostItem(d) ==
    IF d.id = Absent \/ d.id = None \/ ParseDatetime(d.DateFound) = None
    THEN ValidationError
    ELSE [id |-> d.id,
          createUserPlace |-> d.createUserPlace,
          item |-> ParseItem(d.item),
          status |-> ParseStatus(d.status),
          DateFound |-> ParseDatetime(d.DateFound),
          DateUpdated |-> ParseDatetime(d.DateUpdated)]

(* LostItemBySubcategory built from the dict d *)
LostItemBySubcategory(d) ==
    IF d.id = Absent \/ d.id = None THEN ValidationError
    ELSE [id |-> d.id, item |-> ParseItem(d.item)]

----------------------------------------------------------------------------
(* fastapi.encoders.jsonable_encoder *)

EncodeScalar(s) ==
    IF \E t \in Times : s = datetime(t)
    THEN isoformat(CHOOSE t \in Times : s = datetime(t))
    ELSE IF \E v \in StatusValues : s = Status(v)
    THEN CHOOSE v \in StatusValues : s = Status(v)
    ELSE s

jsonable_encoder(d) ==
    [k \in DOMAIN d |-> IF k = "item" THEN d[k] ELSE EncodeScalar(d[k])]

----------------------------------------------------------------------------
(* chat_service.ChatService: canonicalisation of free text *)

LocationTexts == {"", "shibuya-ku"}
CategoryTexts == {"", "saifu"}
SubcategoryTexts == {"saifu", "bag"}

select_location(text) ==
    CASE text = "shibuya-ku" -> "Shibuya"
      [] OTHER -> text

select_category(text) ==
    CASE text = "saifu" -> "wallet"
      [] OTHER -> text

----------------------------------------------------------------------------
(* Cosmos DB container operations *)

(* value of a property path of a document; Absent when undefined *)
Path(c, path) ==
    CASE path = "c.createUserPlace" -> c.createUserPlace
      [] path = "c.item.categoryName" ->
            IF c.item = AbsentItem \/ c.item = NoneItem THEN Absent
            ELSE c.item.categoryName

(* query_items: SELECT * FROM c [WHERE f1 AND f2 ...], cross partition *)
query_items(container, filters) ==
    {c \in container :
        \A i \in 1..Len(filters) : Path(c, filters[i].path) = filters[i].value}

(* faulty variant: the lookup ignores the partition key *)
read_item_any_partition(container, item_id, partition_key) ==
    {c \in container : c.id = item_id}

(* read_item(item, partition_key): the matching documents (none: not found) *)
read_item(container, item_id, partition_key) ==
    {c \in container : c.id = item_id /\ c.createUserPlace = partition_key}

(* create_item: conflict when the id exists in the logical partition *)
create_item_conflict(container, body) ==
    read_item(container, body.id, body.createUserPlace) # {}

create_item(container, body) == container \cup {body}

(* replace_item(item, body): the document with item's id is replaced *)
replace_item(container, existing_item, body) ==
    (container \ read_item(container, existing_item.id, body.createUserPlace))
        \cup {body}

----------------------------------------------------------------------------
(* Handler steps shared by the serial and the interleaved specification *)

(* faulty variant: the generator hands out the previous value again *)
uuid4_reused == IF nextUuid > 1 THEN nextUuid - 1 ELSE nextUuid

(* uuid.uuid4(): a value no earlier call returned *)
uuid4 == nextUuid

(* datetime.utcnow(): every reading is later than the one before *)
utcnow == datetime(now)

(* add_lost_item, lines 123-126: the dict that is encoded and stored *)
lost_item_data(item, uuid, current_time) ==
    [k \in Keys |->
        CASE k = "id" -> str(uuid)
          [] k = "DateFound" -> current_time
          [] k = "DateUpdated" -> Absent
          [] OTHER -> dict(item)[k]]

(* faulty variant: the update stamps DateFound as well *)
update_data_restamps_found(item, current_time) ==
    [k \in Keys |->
        CASE k = "id" -> Absent
          [] k = "DateFound" -> current_time
          [] k = "DateUpdated" -> current_time
          [] OTHER -> dict_exclude_unset(item)[k]]

(* update_lost_item, lines 157-158 *)
update_data(item, current_time) ==
    [k \in Keys |->
        CASE k = "id" -> Absent
          [] k = "DateFound" -> Absent
          [] k = "DateUpdated" -> current_time
          [] OTHER -> dict_exclude_unset(item)[k]]

(* update_lost_item, lines 161-162: existing_item[key] = value *)
merge(existing_item, data) ==
    [k \in Keys |-> IF IsAbsent(k, data[k]) THEN existing_item[k] ELSE data[k]]

(* faulty variant: "is not None" in place of truthiness *)
Truthy_not_none(text) == text # None

(* get_lost_items, lines 47-59: the filter clauses of the query *)
Truthy(text) == text # None /\ text # ""

filters(municipality, categoryName) ==
    (IF Truthy(municipality)
     THEN <<[path |-> "c.createUserPlace",
             value |-> select_location(municipality)]>>
     ELSE <<>>)
    \o
    (IF Truthy(categoryName)
     THEN <<[path |-> "c.item.categoryName",
             value |-> select_category(categoryName)]>>
     ELSE <<>>)

(* lines 73-81: the response built from the documents of a query *)
lost_items_response(items) ==
    IF items = {} THEN [status |-> 200, items |-> {}]
    ELSE IF \E c \in items : LostItem(c) = ValidationError
    THEN [status |-> 500, items |-> {}]
    ELSE [status |-> 200, items |-> {LostItem(c) : c \in items}]

(* faulty variant: an empty result is answered like the general listing *)
subcategory_response_empty_ok(items) ==
    IF items = {} THEN [status |-> 200, items |-> {}]
    ELSE IF \E c \in items : LostItemBySubcategory(c) = ValidationError
    THEN [status |-> 500, items |-> {}]
    ELSE [status |-> 200, items |-> {LostItemBySubcategory(c) : c \in items}]

(* lines 104-112 *)
subcategory_response(items) ==
    IF items = {} THEN [status |-> 404, items |-> {}]
    ELSE IF \E c \in items : LostItemBySubcategory(c) = ValidationError
    THEN [status |-> 500, items |-> {}]
    ELSE [status |-> 200, items |-> {LostItemBySubcategory(c) : c \in items}]

BLOB_CONTAINER_NAME == "images"
BLOB_ACCOUNT_URL == "https://account.blob.core.windows.net"

FileNames == {"a.png", "b.png"}

(* line 213 *)
image_url(filename) ==
    BLOB_ACCOUNT_URL \o "/" \o BLOB_CONTAINER_NAME \o "/" \o filename

(* faulty variant: overwrite is off, an existing blob is kept *)
upload_blob_keep_existing(container, filename, data) ==
    IF \E b \in container : b.name = filename THEN container
    ELSE container \cup {[name |-> filename, data |-> data]}

(* upload_blob(data, overwrite=True) *)
upload_blob(container, filename, data) ==
    {b \in container : b.name # filename} \cup {[name |-> filename, data |-> data]}

----------------------------------------------------------------------------
(* Initial state: the containers hold what earlier create requests left.    *)

SeedRequests ==
    <<[createUserPlace |-> "Shibuya",
       item |-> [categoryName |-> "wallet", color |-> "red"],
       status |-> Unset],
      [createUserPlace |-> "Minato",
       item |-> [categoryName |-> "wallet", color |-> Unset],
       status |-> Status("found")]>>

Seed(n) == jsonable_encoder(lost_item_data(SeedRequests[n], n, datetime(0)))

(* the ids update requests name: every id handed out, and one never used *)
Ids == {str(u) : u \in 1..(Len(SeedRequests) + MaxTime + 1)}

Workers == {1, 2}
NoItem == [none |-> TRUE]

Init ==
    \E n \in 0..Len(SeedRequests) :
        /\ lost_items_container = {Seed(i) : i \in 1..n}
        /\ lost_items_by_subcategory_container =
               {[id |-> Seed(i).id, item |-> Seed(i).item] : i \in 1..n}
        /\ created = {[id |-> Seed(i).id, item |-> SeedRequests[i], at |-> 0] :
                          i \in 1..n}
        /\ nextUuid = n + 1
        /\ blobs = {}
        /\ now = 1
        /\ resp = [op |-> "none", status |-> 0]
        /\ updated = {}
        /\ uploads = <<>>
        /\ pc = [w \in Workers |-> "idle"]
        /\ w_item = [w \in Workers |-> NoItem]
        /\ w_existing = [w \in Workers |-> NoItem]

----------------------------------------------------------------------------
(* Requests handled one at a time *)

get_lost_items(municipality, categoryName) ==
    /\ \E ok \in BOOLEAN :
         resp' = [op |-> "get_lost_items",
                  municipality |-> municipality,
                  categoryName |-> categoryName] @@
                 (IF ok
                  THEN [queried |-> TRUE] @@
                       lost_items_response(
                           query_items(lost_items_container,
                                       filters(municipality, categoryName)))
                  ELSE [queried |-> FALSE, status |-> 500, items |-> {}])
    /\ UNCHANGED <<lost_items_container, lost_items_by_subcategory_container,
                   blobs, now, nextUuid, created, updated, uploads,
                   pc, w_item, w_existing>>

get_lost_items_by_subcategory(subcategory) ==
    /\ \E ok \in BOOLEAN :
         resp' = [op |-> "get_lost_items_by_subcategory",
                  subcategory |-> subcategory] @@
                 (IF ok
                  THEN [queried |-> TRUE] @@
                       subcategory_response(
                           query_items(lost_items_by_subcategory_container,
                               <<[path |-> "c.item.categoryName",
                                  value |-> select_category(subcategory)]>>))
                  ELSE [queried |-> FALSE, status |-> 500, items |-> {}])
    /\ UNCHANGED <<lost_items_container, lost_items_by_subcategory_container,
                   blobs, now, nextUuid, created, updated, uploads,
                   pc, w_item, w_existing>>

(* faulty variant: the request fails after the record was written *)
add_lost_item_write_then_raise(item) ==
    /\ now <= MaxTime
    /\ LET data == lost_item_data(item, uuid4, utcnow)
           lost_item_data_encoded == jsonable_encoder(data)
       IN /\ ~create_item_conflict(lost_items_container, lost_item_data_encoded)
          /\ lost_items_container' =
                 create_item(lost_items_container, lost_item_data_encoded)
          /\ created' = created \cup {[id |-> data.id, item |-> item, at |-> now]}
          /\ resp' = [op |-> "add_lost_item", status |-> 500]
    /\ nextUuid' = nextUuid + 1
    /\ now' = now + 1
    /\ UNCHANGED <<lost_items_by_subcategory_container, blobs, updated,
                   uploads, pc, w_item, w_existing>>

add_lost_item(item) ==
    /\ now <= MaxTime
    /\ LET data == lost_item_data(item, uuid4, utcnow)
           lost_item_data_encoded == jsonable_encoder(data)
           created_item == LostItem(data)
       IN \E ok \in BOOLEAN :
            IF ok /\ ~create_item_conflict(lost_items_container,
                                           lost_item_data_encoded)
            THEN /\ lost_items_container' =
                        create_item(lost_items_container, lost_item_data_encoded)
                 /\ created' = created \cup
                        {[id |-> data.id, item |-> item, at |-> now]}
                 /\ resp' = [op |-> "add_lost_item", item |-> item,
                             status |-> IF created_item = ValidationError
                                        THEN 500 ELSE 200,
                             body |-> created_item]
            ELSE /\ resp' = [op |-> "add_lost_item", status |-> 500]
                 /\ UNCHANGED <<lost_items_container, created>>
    /\ nextUuid' = nextUuid + 1
    /\ now' = now + 1
    /\ UNCHANGED <<lost_items_by_subcategory_container, blobs, updated,
                   uploads, pc, w_item, w_existing>>

update_lost_item(item_id, item) ==
    /\ LET found == read_item(lost_items_container, item_id, item.createUserPlace)
       IN IF found = {}
          THEN /\ resp' = [op |-> "update_lost_item", item_id |-> item_id,
                           status |-> 500]
               /\ UNCHANGED <<lost_items_container, updated, now>>
          ELSE LET read == CHOOSE c \in found : TRUE
                   existing_item == merge(read, update_data(item, utcnow))
                   existing_item_encoded == jsonable_encoder(existing_item)
                   updated_item == LostItem(existing_item)
               IN /\ now <= MaxTime
                  /\ now' = now + 1
                  /\ \E ok \in BOOLEAN :
                    IF ok
                    THEN /\ lost_items_container' =
                                replace_item(lost_items_container, existing_item,
                                             existing_item_encoded)
                         /\ updated' = updated \cup {item_id}
                         /\ resp' = [op |-> "update_lost_item",
                                     item_id |-> item_id, item |-> item,
                                     status |-> IF updated_item = ValidationError
                                                THEN 500 ELSE 200,
                                     body |-> updated_item]
                    ELSE /\ resp' = [op |-> "update_lost_item",
                                     item_id |-> item_id, status |-> 500]
                         /\ UNCHANGED <<lost_items_container, updated>>
    /\ UNCHANGED <<lost_items_by_subcategory_container, blobs, nextUuid,
                   created, uploads, pc, w_item, w_existing>>

upload_image(filename, data) ==
    /\ Len(uploads) < MaxUploads
    /\ \E ok \in BOOLEAN :
         IF ok
         THEN /\ blobs' = upload_blob(blobs, filename, data)
              /\ uploads' = Append(uploads,
                     [filename |-> filename, data |-> data,
                      imageUrl |-> image_url(filename)])
              /\ resp' = [op |-> "upload_image", filename |-> filename,
                          data |-> data, status |-> 200,
                          imageUrl |-> image_url(filename)]
         ELSE /\ resp' = [op |-> "upload_image", filename |-> filename,
                          data |-> data, status |-> 500, imageUrl |-> None]
              /\ UNCHANGED <<blobs, uploads>>
    /\ UNCHANGED <<lost_items_container, lost_items_by_subcategory_container,
                   now, nextUuid, created, updated, pc, w_item, w_existing>>

Next ==
    \/ \E m \in LocationTexts \cup {None}, c \in CategoryTexts \cup {None} :
           get_lost_items(m, c)
    \/ \E s \in SubcategoryTexts : get_lost_items_by_subcategory(s)
    \/ \E item \in LostItemRequest : add_lost_item(item)
    \/ \E item_id \in Ids, item \in LostItemRequest : update_lost_item(item_id, item)

Spec == Init /\ [][Next]_vars

----------------------------------------------------------------------------
(* Two update requests in flight at once (one per function instance): each  *)
(* request is a read_item call followed later by a replace_item call.       *)

update_read(w, item_id, item) ==
    /\ pc[w] = "idle"
    /\ LET found == read_item(lost_items_container, item_id, item.createUserPlace)
       IN IF found = {}
          THEN /\ pc' = [pc EXCEPT ![w] = "failed"]
               /\ UNCHANGED <<w_item, w_existing>>
          ELSE /\ pc' = [pc EXCEPT ![w] = "read"]
               /\ w_item' = [w_item EXCEPT ![w] = [item_id |-> item_id, item |-> item]]
               /\ w_existing' = [w_existing EXCEPT ![w] = CHOOSE c \in found : TRUE]
    /\ UNCHANGED <<lost_items_container, lost_items_by_subcategory_container,
                   blobs, now, nextUuid, resp, created, updated, uploads>>

update_replace(w) ==
    /\ pc[w] = "read"
    /\ now <= MaxTime
    /\ now' = now + 1
    /\ LET existing_item == merge(w_existing[w], update_data(w_item[w].item, utcnow))
           existing_item_encoded == jsonable_encoder(existing_item)
       IN \E ok \in BOOLEAN :
            IF ok
            THEN /\ lost_items_container' =
                        replace_item(lost_items_container, existing_item,
                                     existing_item_encoded)
                 /\ updated' = updated \cup {w_item[w].item_id}
                 /\ pc' = [pc EXCEPT ![w] =
                               IF LostItem(existing_item) = ValidationError
                               THEN "failed" ELSE "done"]
            ELSE /\ pc' = [pc EXCEPT ![w] = "failed"]
                 /\ UNCHANGED <<lost_items_container, updated>>
    /\ UNCHANGED <<lost_items_by_subcategory_container, blobs, nextUuid, resp,
                   created, uploads, w_item, w_existing>>

ConcNext ==
    \E w \in Workers :
        \/ \E item_id \in Ids, item \in LostItemRequest : update_read(w, item_id, item)
        \/ update_replace(w)

ConcSpec == Init /\ [][ConcNext]_vars

(* The blob uploader alone *)
BlobNext ==
    \E f \in FileNames, d \in 1..MaxBlobData : upload_image(f, d)

BlobSpec == Init /\ [][BlobNext]_vars

----------------------------------------------------------------------------
(* Properties *)

IsDict(i) == i # NoneItem /\ i # AbsentItem

StoredWith(container, id) == {c \in container : c.id = id}

UpdateReturned ==
    now' # now /\ resp'.op = "update_lost_item" /\ resp'.status = 200

(* C1: after a successful update_lost_item the stored and the returned     *)
(* record keep, for every field the payload P does not set (top-level      *)
(* fields and sub-fields of item), the value the record R had before.      *)
C1_UpdateKeepsUnsetFields ==
    [][UpdateReturned =>
        LET P == resp'.item
            R == CHOOSE c \in lost_items_container :
                     c.id = resp'.item_id /\ c.createUserPlace = P.createUserPlace
            S == CHOOSE c \in lost_items_container' :
                     c.id = resp'.item_id /\ c.createUserPlace = P.createUserPlace
            B == resp'.body
        IN /\ S.id = R.id /\ B.id = R.id
           /\ S.DateFound = R.DateFound /\ B.DateFound = LostItem(R).DateFound
           /\ P.status = Unset =>
                  S.status = R.status /\ B.status = LostItem(R).status
           /\ P.item = UnsetItem =>
                  S.item = R.item /\ B.item = LostItem(R).item
           /\ (P.item # UnsetItem /\ P.item.color = Unset /\ IsDict(R.item)) =>
                  /\ S.item.color = R.item.color
                  /\ B.item.color = LostItem(R).item.color]_vars

Covers(municipality, place) ==
    municipality = None \/ municipality = "" \/ select_location(municipality) = place

Echoes(x, P) ==
    /\ x.createUserPlace = P.createUserPlace
    /\ P.item # UnsetItem =>
           /\ IsDict(x.item)
           /\ x.item.categoryName = P.item.categoryName
           /\ P.item.color # Unset => x.item.color = P.item.color
    /\ P.status # Unset => x.status = P.status

AddReturnsFreshRecord ==
    (resp.op = "add_lost_item" /\ resp.status = 200) =>
        /\ resp.body.id # "" /\ resp.body.id # None
        /\ resp.body.DateFound # None
        /\ Cardinality(StoredWith(lost_items_container, resp.body.id)) = 1
        /\ Echoes(resp.body, resp.item)

ListEchoes(E) ==
    (/\ resp.op = "get_lost_items" /\ resp.status = 200
     /\ (resp.categoryName = None \/ resp.categoryName = "")) =>
        \A e \in E :
            Covers(resp.municipality, e.item.createUserPlace) =>
                \E x \in resp.items : x.id = e.id /\ Echoes(x, e.item)

(* C2 as stated: a successful add_lost_item returns a record with a        *)
(* non-empty id no other stored record has and with DateFound set, and any *)
(* later get_lost_items whose filter covers the record's createUserPlace   *)
(* returns a record with that id whose fields equal the create payload.    *)
C2_AnyLaterListEchoesPayload ==
    AddReturnsFreshRecord /\ ListEchoes(created)

(* C2 amended: as C2, for every later get_lost_items made while the record *)
(* has not been updated.                                                   *)
C2_ListEchoesPayloadUntilUpdated ==
    AddReturnsFreshRecord /\ ListEchoes({e \in created : e.id \notin updated})

C2_Witness ==
    /\ resp.op = "get_lost_items" /\ resp.status = 200
    /\ resp.municipality = "shibuya-ku" /\ resp.categoryName = None
    /\ \E e \in created :
           /\ e.at >= 1 /\ e.id \notin updated
           /\ e.item.createUserPlace = "Shibuya"
           /\ e.item.status # Unset
           /\ \E x \in resp.items : x.id = e.id
    /\ \E c \in lost_items_container : c.createUserPlace # "Shibuya"

(* C3: every stored record keeps the id and the createUserPlace it was     *)
(* created with, and no two stored records share an id.                    *)
C3_IdAndPartitionKeyImmutable ==
    /\ \A e \in created :
           /\ Cardinality(StoredWith(lost_items_container, e.id)) = 1
           /\ \A c \in StoredWith(lost_items_container, e.id) :
                  c.createUserPlace = e.item.createUserPlace
    /\ \A c \in lost_items_container : \E e \in created : e.id = c.id

C3_Witness ==
    /\ resp.op = "update_lost_item" /\ resp.status = 200
    /\ Cardinality(lost_items_container) >= 2
    /\ \E e \in created : e.at >= 1

(* C4: DateFound is the creation time and no update changes it;            *)
(* DateUpdated is absent until the first update and is the time of the     *)
(* update after every successful update_lost_item.                         *)
C4_Timestamps ==
    /\ \A e \in created : \A c \in StoredWith(lost_items_container, e.id) :
           /\ c.DateFound = isoformat(e.at)
           /\ e.id \notin updated <=> c.DateUpdated = Absent
    /\ (resp.op = "add_lost_item" /\ resp.status = 200) =>
           /\ resp.body.DateFound = datetime(now - 1)
           /\ resp.body.DateUpdated = None
    /\ (resp.op = "update_lost_item" /\ resp.status = 200) =>
           /\ resp.body.DateUpdated = datetime(now - 1)
           /\ \A c \in StoredWith(lost_items_container, resp.item_id) :
                  /\ c.DateUpdated = isoformat(now - 1)
                  /\ LostItem(c).DateFound = resp.body.DateFound

C4_Witness ==
    /\ resp.op = "update_lost_item" /\ resp.status = 200
    /\ \E e \in created :
           /\ e.id = resp.item_id /\ e.at >= 1
           /\ resp.body.DateFound = datetime(e.at)
           /\ resp.body.DateUpdated # resp.body.DateFound

SubcategoryMatches(subcategory) ==
    {c \in lost_items_by_subcategory_container :
        IsDict(c.item) /\ c.item.categoryName = select_category(subcategory)}

ListMatches(municipality, categoryName) ==
    {c \in lost_items_container :
        /\ (municipality # None /\ municipality # "") =>
               c.createUserPlace = select_location(municipality)
        /\ (categoryName # None /\ categoryName # "") =>
               IsDict(c.item) /\ c.item.categoryName = select_category(categoryName)}

(* C5: when the query succeeds with no match, get_lost_items answers 200   *)
(* with an empty list and get_lost_items_by_subcategory answers 404; with  *)
(* matches, get_lost_items_by_subcategory returns every one of them.       *)
C5_EmptyResultAsymmetry ==
    /\ (/\ resp.op = "get_lost_items" /\ resp.queried
        /\ ListMatches(resp.municipality, resp.categoryName) = {}) =>
           resp.status = 200 /\ resp.items = {}
    /\ (resp.op = "get_lost_items_by_subcategory" /\ resp.queried) =>
           IF SubcategoryMatches(resp.subcategory) = {}
           THEN resp.status = 404
           ELSE /\ resp.status = 200
                /\ {x.id : x \in resp.items} =
                       {c.id : c \in SubcategoryMatches(resp.subcategory)}
                /\ Cardinality(resp.items) =
                       Cardinality(SubcategoryMatches(resp.subcategory))

C5_Witness ==
    /\ resp.op = "get_lost_items_by_subcategory" /\ resp.status = 200
    /\ Cardinality(resp.items) >= 2

(* C6: get_lost_items returns exactly the stored records that satisfy      *)
(* every supplied filter (createUserPlace = select_location(municipality), *)
(* item.categoryName = select_category(categoryName)); an empty string is  *)
(* treated as an absent parameter.                                         *)
C6_ListReturnsExactlyMatches ==
    (resp.op = "get_lost_items" /\ resp.status = 200) =>
        resp.items =
            {LostItem(c) : c \in ListMatches(resp.municipality, resp.categoryName)}

C6_Witness ==
    /\ resp.op = "get_lost_items" /\ resp.status = 200
    /\ resp.municipality = "shibuya-ku" /\ resp.categoryName = "saifu"
    /\ resp.items # {}
    /\ \E c \in lost_items_container :
           c.createUserPlace = "Shibuya" /\ LostItem(c) \notin resp.items
    /\ \E c \in lost_items_container :
           c.createUserPlace # "Shibuya" /\ IsDict(c.item)
               /\ c.item.categoryName = "wallet"

(* C7: every record of LostItemBySubcategory corresponds to exactly one    *)
(* record of LostItems with the same item.categoryName.                    *)
C7_SubcategoryViewMatchesLostItems ==
    \A v \in lost_items_by_subcategory_container :
        Cardinality({c \in lost_items_container :
                        /\ c.id = v.id
                        /\ IsDict(c.item) /\ IsDict(v.item)
                        /\ c.item.categoryName = v.item.categoryName}) = 1

LastUploadOf(filename) ==
    CHOOSE i \in 1..Len(uploads) :
        /\ uploads[i].filename = filename
        /\ \A j \in (i + 1)..Len(uploads) : uploads[j].filename # filename

(* C8: after uploads under one file name there is exactly one blob of that *)
(* name, holding the bytes of the last upload, and every upload of the     *)
(* name returned the same URL: account URL / "images" / file name.         *)
C8_UploadOverwritesAndUrlIsStable ==
    \A i \in 1..Len(uploads) :
        /\ uploads[i].imageUrl =
               "https://account.blob.core.windows.net/images/" \o uploads[i].filename
        /\ \A j \in 1..Len(uploads) :
               uploads[j].filename = uploads[i].filename =>
                   uploads[j].imageUrl = uploads[i].imageUrl
        /\ {b \in blobs : b.name = uploads[i].filename} =
               {[name |-> uploads[i].filename,
                 data |-> uploads[LastUploadOf(uploads[i].filename)].data]}

C8_Witness ==
    /\ resp.op = "upload_image" /\ resp.status = 200
    /\ \E i, j \in 1..Len(uploads) :
           /\ i < j /\ j = Len(uploads)
           /\ uploads[i].filename = uploads[j].filename
           /\ uploads[i].data # uploads[j].data

DisjointFields(P, Q) ==
    /\ P.createUserPlace = Q.createUserPlace
    /\ P.item = UnsetItem \/ Q.item = UnsetItem
    /\ P.status = Unset \/ Q.status = Unset

Carries(c, P) ==
    /\ P.item # UnsetItem => c.item = dict_exclude_unset(P).item
    /\ P.status # Unset => c.status = EncodeScalar(P.status)

(* C10: once two update_lost_item requests on one record with disjoint     *)
(* fields have both returned successfully, the stored record carries the   *)
(* fields of both, whatever the interleaving of their store calls.         *)
C10_NoLostUpdate ==
    (/\ pc[1] = "done" /\ pc[2] = "done"
     /\ w_item[1].item_id = w_item[2].item_id
     /\ DisjointFields(w_item[1].item, w_item[2].item)) =>
        \A c \in StoredWith(lost_items_container, w_item[1].item_id) :
            Carries(c, w_item[1].item) /\ Carries(c, w_item[2].item)

====
